---- MODULE Spec2Model ----
(***************************************************************************)
(* The POST /analyze pipeline of backend/app/main.py: one request, handled *)
(* by analyze_profile, which issues three autocomplete lookups, up to      *)
(* three trending lookups, the persona completion and the country-insight  *)
(* completion, all inside one try/except.  Every outbound call is one step *)
(* of the model; what the provider answers is the step's input.            *)
(*                                                                         *)
(* Text is a sequence of one-character strings where the code looks inside *)
(* it (the candidate types) and a sequence of message fragments where the  *)
(* code only concatenates it (exception messages, the error detail).       *)
(***************************************************************************)
EXTENDS Integers, Sequences, FiniteSets, TLC

VARIABLES
    pc,                \* the next statement group of analyze_profile
    body,              \* the parsed request body
    music_id, movie_id, brand_id,
    music_trends, movie_trends, brand_trends,
    qloo_suggestions,  \* the list handed to generate_persona_from_taste
    temperature,       \* the temperature handed to the persona completion, in hundredths
    parsed,            \* json.loads(ai_result)
    calls,             \* every outbound call issued so far, in order
    exchange,          \* the outbound exchange of the latest step: request, answer, value computed
    http               \* the HTTP response of the request

vars == <<pc, body, music_id, movie_id, brand_id, music_trends, movie_trends,
          brand_trends, qloo_suggestions, temperature, parsed, calls, exchange, http>>

-----------------------------------------------------------------------------
(* Bounds of the model *)

MaxMissing == 1      \* required request fields that may be absent at once
MaxCandidates == 2   \* candidates in one autocomplete answer handed to autocomplete_entity alone

-----------------------------------------------------------------------------
(* Python values *)

None == "None"

\* Python truthiness of an Optional[str]: None and "" are falsy.
Truthy(s) == s # None /\ s # ""

UpperCase == <<"A","B","C","D","E","F","G","H","I","J","K","L","M",
               "N","O","P","Q","R","S","T","U","V","W","X","Y","Z">>
LowerCase == <<"a","b","c","d","e","f","g","h","i","j","k","l","m",
               "n","o","p","q","r","s","t","u","v","w","x","y","z">>

\* the characters of the model's texts and the lower-case form of each
Characters == {UpperCase[k] : k \in 1..26} \cup {LowerCase[k] : k \in 1..26} \cup {":"}
LowerOf ==
    [c \in Characters |->
        IF \E k \in 1..26 : UpperCase[k] = c
        THEN LowerCase[CHOOSE k \in 1..26 : UpperCase[k] = c]
        ELSE c]

\* str.lower(), character by character
str_lower(s) == [i \in 1..Len(s) |-> LowerOf[s[i]]]

\* Python's  sub in s  on strings
str_in(sub, s) ==
    \E k \in 0..(Len(s) - Len(sub)) : \A i \in 1..Len(sub) : s[k + i] = sub[i]

\* a + b + c on lists
Concat3MovieFirst(a, b, c) == b \o a \o c
Concat3(a, b, c) == a \o b \o c

\* the value of a call that returned / the exception of a call that raised
Returned(v) == [raised |-> FALSE, value |-> v, exc |-> <<>>]
Raised(msg) == [raised |-> TRUE, value |-> None, exc |-> msg]

-----------------------------------------------------------------------------
(* The request body *)

Required == {"movies", "music", "brands", "gender"}
AllKeys == Required \cup {"variation"}
Variations == {-17, 0, 24, 100}

\* a body without the key carries no variation (written 0 here, never read)
Bodies ==
    { b \in [keys : {K \in SUBSET AllKeys : Cardinality(Required \ K) <= MaxMissing},
             variation : Variations \cup {0}] :
        "variation" \notin b.keys => b.variation = 0 }

\* str(KeyError(key)) is the repr of the key
KeyError(key) == <<"'", key, "'">>

\* body[k1], body[k2], ... evaluated in order: the first absent key raises
FirstMissing(b, ks) ==
    IF \E i \in 1..Len(ks) : ks[i] \notin b.keys
    THEN ks[CHOOSE i \in 1..Len(ks) :
               ks[i] \notin b.keys /\ \A j \in 1..(i - 1) : ks[j] \in b.keys]
    ELSE None

\* body.get("variation", 0)
body_get_variation(b) == IF "variation" \in b.keys THEN b.variation ELSE 0

-----------------------------------------------------------------------------
(* The taste-graph provider: autocomplete *)

artist == <<"a","r","t","i","s","t">>
movie == <<"m","o","v","i","e">>
brand == <<"b","r","a","n","d">>

\* the "type" strings a candidate may carry; <<>> is "" (also r.get's default
\* for a candidate without the field)
CandidateTypes ==
    { <<"u","r","n",":","e","n","t","i","t","y",":","a","r","t","i","s","t">>,
      <<"U","R","N",":","E","N","T","I","T","Y",":","M","O","V","I","E">>,
      <<"u","r","n",":","e","n","t","i","t","y",":","B","r","a","n","d">>,
      <<>> }

\* the "id" values; "" is also r.get's default for a candidate without the field
CandidateIds == {"", "e1", "e2"}

Candidates == [type : CandidateTypes, id : CandidateIds]

RECURSIVE SeqsUpTo(_, _)
SeqsUpTo(S, n) ==
    IF n = 0 THEN {<<>>}
    ELSE LET shorter == SeqsUpTo(S, n - 1)
         IN  shorter \cup {Append(s, x) : s \in {t \in shorter : Len(t) = n - 1}, x \in S}

\* what requests.get(autocomplete url) can bring: an exception, a non-200
\* status, a 200 whose body is not the JSON the code reads, a 200 with results
ResponsesWith(resultLists) ==
    {[raises |-> TRUE, status_code |-> 0, valid |-> FALSE, results |-> <<>>]}
    \cup {[raises |-> FALSE, status_code |-> s, valid |-> FALSE, results |-> <<>>] :
            s \in {404, 503}}
    \cup {[raises |-> FALSE, status_code |-> 200, valid |-> FALSE, results |-> <<>>]}
    \cup {[raises |-> FALSE, status_code |-> 200, valid |-> TRUE, results |-> rs] :
            rs \in resultLists}

\* the answers within a request: no candidate or one
AutocompleteResponses == ResponsesWith({<<>>} \cup {<<c>> : c \in Candidates})

\* the answers handed to autocomplete_entity on its own
CandidateLists == SeqsUpTo(Candidates, MaxCandidates)
ResolveResponses == ResponsesWith(CandidateLists)

\* entity_type in r.get("type", "").lower()
TypeMatchesNoLower(entity_type, r) == str_in(entity_type, r.type)
TypeMatches(entity_type, r) == str_in(entity_type, str_lower(r.type))

\* the for loop of autocomplete_entity: the first matching candidate returns
LoopResult(results, entity_type) ==
    IF \E i \in 1..Len(results) : TypeMatches(entity_type, results[i])
    THEN results[CHOOSE i \in 1..Len(results) :
                    /\ TypeMatches(entity_type, results[i])
                    /\ \A j \in 1..(i - 1) : ~TypeMatches(entity_type, results[j])].id
    ELSE None

autocomplete_entity(response, entity_type) ==
    IF response.raises THEN Raised(<<"ConnectionError">>)
    ELSE IF response.status_code = 200
         THEN IF response.valid
              THEN Returned(LoopResult(response.results, entity_type))
              ELSE Raised(<<"JSONDecodeError">>)
         ELSE Returned(None)

-----------------------------------------------------------------------------
(* The taste-graph provider: trending *)

Named(n) == [has_name |-> TRUE, name |-> n]
Unnamed == [has_name |-> FALSE, name |-> ""]

\* the "results" lists a trending answer may carry
TrendingResults ==
    { <<>>,
      <<Named("a"), Named("b")>>,
      <<Unnamed, Named("b")>>,
      <<Named("a"), Unnamed, Named("b")>> }

TrendingResponses == ResponsesWith(TrendingResults)

\* [i.get("name", "Unknown") for i in items if "name" in i]
RECURSIVE NamesOf(_)
NamesOf(items) ==
    IF items = <<>> THEN <<>>
    ELSE IF Head(items).has_name
         THEN <<Head(items).name>> \o NamesOf(Tail(items))
         ELSE NamesOf(Tail(items))

\* if not entity_id: return []
SkipsTrendingNever(entity_id) == FALSE
SkipsTrending(entity_id) == ~Truthy(entity_id)

\* get_qloo_trending past its guard: the request and what is made of the answer
get_qloo_trending(response) ==
    IF response.raises THEN Raised(<<"ConnectionError">>)
    ELSE IF response.status_code = 200
         THEN IF response.valid
              THEN Returned(NamesOf(response.results))
              ELSE Raised(<<"JSONDecodeError">>)
         ELSE Returned(<<>>)

-----------------------------------------------------------------------------
(* The language-model provider *)

\* JSON documents the model may answer with, and what json.loads makes of them
PersonaDocs ==
    { "{\"personaName\": \"P\", \"culturalTwin\": \"Ada Lovelace\"}",
      "{\"personaName\": \"P\", \"culturalTwin\": null}",
      "{\"personaName\": \"P\"}",
      "[\"P\"]",
      "42" }

NotParsed == [kind |-> "unset", has_twin |-> FALSE, culturalTwin |-> None]

PersonaValue(doc) ==
    CASE doc = "{\"personaName\": \"P\", \"culturalTwin\": \"Ada Lovelace\"}" ->
            [kind |-> "object", has_twin |-> TRUE, culturalTwin |-> "Ada Lovelace"]
      [] doc = "{\"personaName\": \"P\", \"culturalTwin\": null}" ->
            [kind |-> "object", has_twin |-> TRUE, culturalTwin |-> None]
      [] doc = "{\"personaName\": \"P\"}" ->
            [kind |-> "object", has_twin |-> FALSE, culturalTwin |-> None]
      [] doc = "[\"P\"]" ->
            [kind |-> "array", has_twin |-> FALSE, culturalTwin |-> None]
      [] doc = "42" ->
            [kind |-> "number", has_twin |-> FALSE, culturalTwin |-> None]

\* message.content: None, or text as a sequence of fragments, each a run of
\* whitespace (" "), a JSON document, or prose that is no JSON
Content(t) == [present |-> TRUE, text |-> t]
NoContent == [present |-> FALSE, text |-> <<>>]

PersonaContents ==
    {NoContent, Content(<<>>), Content(<<" ">>), Content(<<"Sure, here it is">>)}
    \cup {Content(<<d>>) : d \in PersonaDocs}
    \cup {Content(<<" ", "{\"personaName\": \"P\"}", " ">>)}

Completion(c) == [raises |-> FALSE, content |-> c]
CompletionError == [raises |-> TRUE, content |-> NoContent]

PersonaCompletions == {CompletionError} \cup {Completion(c) : c \in PersonaContents}

\* if not content
NotContentNoneOnly(content) == ~content.present
NotContent(content) == ~content.present \/ content.text = <<>>

\* str.strip()
RECURSIVE lstrip(_)
lstrip(t) == IF t # <<>> /\ Head(t) = " " THEN lstrip(Tail(t)) ELSE t
RECURSIVE rstrip(_)
rstrip(t) ==
    IF t # <<>> /\ t[Len(t)] = " " THEN rstrip(SubSeq(t, 1, Len(t) - 1)) ELSE t
strip(t) == rstrip(lstrip(t))

\* json.loads of the persona text: surrounding whitespace is skipped, then
\* exactly one document must follow
json_loads_persona(t) ==
    LET core == strip(t)
    IN  IF Len(core) = 1 /\ core[1] \in PersonaDocs
        THEN Returned(PersonaValue(core[1]))
        ELSE Raised(<<"Expecting value">>)

\* base_temperature, capped_temperature, in hundredths
capped_temperature(variation_seed) ==
    LET base_temperature == 80 + variation_seed * 5
    IN  IF base_temperature < 200 THEN base_temperature ELSE 200

\* str(HTTPException(status_code=500, detail=d)): "<status_code>: <detail>"
HTTPExceptionStr(d) == <<"500", ": ", d>>

\* generate_persona_from_taste past the prompt: the completion, the check
\* for empty content, the strip
generate_persona_from_taste(completion) ==
    IF completion.raises THEN Raised(<<"APIError">>)
    ELSE IF NotContent(completion.content)
         THEN Raised(HTTPExceptionStr("GPT returned empty response"))
         ELSE Returned(strip(completion.content.text))

\* the country-insight answers: JSON documents and what json.loads makes of them.
\* An element is what the comprehension's loop variable is bound to: has_country
\* is the value of  "country" in item  (a key test on a dict, a substring test
\* on a str); on a number that test raises TypeError.
ObjectItem(c, text) == [kind |-> "object", has_country |-> TRUE, country |-> c, insight |-> text]
ObjectItemNoCountry(text) == [kind |-> "object", has_country |-> FALSE, country |-> "", insight |-> text]
StringItem(has) == [kind |-> "string", has_country |-> has, country |-> "", insight |-> ""]
NumberItem == [kind |-> "number", has_country |-> FALSE, country |-> "", insight |-> ""]

CountryDocs ==
    { "[]",
      "[{\"country\": \"USA\", ...}, {\"country\": \"Japan\", ...}]",
      "[{\"country\": \"USA\", ...}, {\"country\": \"USA\", ...}]",
      "[{\"culturalInsight\": \"x\"}]",
      "[{\"country\": \"USA\", ...}, 5]",
      "[\"country music\"]",
      "{\"country\": \"USA\", ...}",
      "{\"USA\": {...}}",
      "5" }

\* iterating a dict yields its keys
CountryValue(doc) ==
    CASE doc = "[]" -> [kind |-> "array", elements |-> <<>>]
      [] doc = "[{\"country\": \"USA\", ...}, {\"country\": \"Japan\", ...}]" ->
            [kind |-> "array",
             elements |-> <<ObjectItem("USA", "u1"), ObjectItem("Japan", "j1")>>]
      [] doc = "[{\"country\": \"USA\", ...}, {\"country\": \"USA\", ...}]" ->
            [kind |-> "array",
             elements |-> <<ObjectItem("USA", "u1"), ObjectItem("USA", "u2")>>]
      [] doc = "[{\"culturalInsight\": \"x\"}]" ->
            [kind |-> "array", elements |-> <<ObjectItemNoCountry("x")>>]
      [] doc = "[{\"country\": \"USA\", ...}, 5]" ->
            [kind |-> "array", elements |-> <<ObjectItem("USA", "u1"), NumberItem>>]
      [] doc = "[\"country music\"]" ->
            [kind |-> "array", elements |-> <<StringItem(TRUE)>>]
      [] doc = "{\"country\": \"USA\", ...}" ->
            [kind |-> "object", elements |-> <<StringItem(TRUE), StringItem(FALSE)>>]
      [] doc = "{\"USA\": {...}}" ->
            [kind |-> "object", elements |-> <<StringItem(FALSE)>>]
      [] doc = "5" -> [kind |-> "number", elements |-> <<>>]

CountryContents ==
    {NoContent, Content(<<>>), Content(<<" ">>), Content(<<"Here are the insights">>)}
    \cup {Content(<<d>>) : d \in CountryDocs}

CountryCompletions == {CompletionError} \cup {Completion(c) : c \in CountryContents}

json_loads_country(t) ==
    LET core == strip(t)
    IN  IF Len(core) = 1 /\ core[1] \in CountryDocs
        THEN Returned(CountryValue(core[1]))
        ELSE Raised(<<"Expecting value">>)

\* {item["country"]: item for item in parsed if "country" in item}
\* a later item replaces an earlier one under the same key
DictComprehension(value) ==
    LET es == value.elements
        ElementRaises(e) == e.kind = "number" \/ (e.kind = "string" /\ e.has_country)
        Kept == {i \in 1..Len(es) : es[i].has_country}
    IN  IF value.kind = "number" \/ \E i \in 1..Len(es) : ElementRaises(es[i])
        THEN Raised(<<"TypeError">>)
        ELSE Returned({ [country |-> es[i].country, insight |-> es[i].insight] :
                          i \in {i \in Kept :
                                   \A j \in Kept : j > i => es[j].country # es[i].country} })

\* generate_cultural_map_insights past the prompt (countries is the fixed,
\* non-empty sample list): empty content and every exception of the try
\* block give {}
generate_cultural_map_insights(completion) ==
    IF completion.raises THEN Raised(<<"APIError">>)
    ELSE IF NotContent(completion.content) THEN Returned({})
    ELSE LET js == json_loads_country(completion.content.text)
         IN  IF js.raised THEN Returned({})
             ELSE LET d == DictComprehension(js.value)
                  IN  IF d.raised THEN Returned({}) ELSE d

-----------------------------------------------------------------------------
(* analyze_profile *)

Pending == [status |-> 0, detail |-> <<>>, has_payload |-> FALSE, result |-> NotParsed,
            culturalTwin |-> None, countryInsights |-> {}]

\* detail=f"Analysis failed: {str(e)}"
ErrorDetail(msg) == <<"Analysis failed: ">> \o msg

\* except Exception as e: raise HTTPException(status_code=500, ...)
ErrorResponse(msg) ==
    [status |-> 500, detail |-> ErrorDetail(msg), has_payload |-> FALSE,
     result |-> NotParsed, culturalTwin |-> None, countryInsights |-> {}]

\* parsed.get("culturalTwin", "Unknown")
parsed_get_culturalTwin(p) == IF p.has_twin THEN p.culturalTwin ELSE "Unknown"

OkResponse(p, insights) ==
    [status |-> 200, detail |-> <<>>, has_payload |-> TRUE, result |-> p,
     culturalTwin |-> parsed_get_culturalTwin(p), countryInsights |-> insights]

NoExchange == [call |-> "none"]
NoResponse == [raises |-> FALSE, status_code |-> 0, valid |-> FALSE, results |-> <<>>]

\* the names under which the outbound calls are logged
AutocompleteCall(entity_type) ==
    CASE entity_type = artist -> "autocomplete:artist"
      [] entity_type = movie -> "autocomplete:movie"
      [] entity_type = brand -> "autocomplete:brand"
TrendingCall(entity_type) ==
    CASE entity_type = artist -> "trending:artist"
      [] entity_type = movie -> "trending:movie"
      [] entity_type = brand -> "trending:brand"

\* the statement order of the try block: what follows each outbound stage
SequelInterleaved(stage) ==
    CASE stage = "autocomplete_music" -> "trending_music"
      [] stage = "trending_music" -> "autocomplete_movie"
      [] stage = "autocomplete_movie" -> "trending_movie"
      [] stage = "trending_movie" -> "autocomplete_brand"
      [] stage = "autocomplete_brand" -> "trending_brand"
      [] stage = "trending_brand" -> "persona"
      [] stage = "persona" -> "country"
      [] stage = "country" -> "done"
Sequel(stage) ==
    CASE stage = "autocomplete_music" -> "autocomplete_movie"
      [] stage = "autocomplete_movie" -> "autocomplete_brand"
      [] stage = "autocomplete_brand" -> "trending_music"
      [] stage = "trending_music" -> "trending_movie"
      [] stage = "trending_movie" -> "trending_brand"
      [] stage = "trending_brand" -> "persona"
      [] stage = "persona" -> "country"
      [] stage = "country" -> "done"

Init ==
    /\ pc = "autocomplete_music"
    /\ body \in Bodies
    /\ music_id = None /\ movie_id = None /\ brand_id = None
    /\ music_trends = <<>> /\ movie_trends = <<>> /\ brand_trends = <<>>
    /\ qloo_suggestions = <<>>
    /\ temperature = <<>>
    /\ parsed = NotParsed
    /\ calls = <<>>
    /\ exchange = NoExchange
    /\ http = Pending

\* the except clause: the request ends with the 500 response
Fail(msg) == pc' = "done" /\ http' = ErrorResponse(msg)

\* the value an assignment  x = f(...)  leaves in x: the value returned, or
\* the old one when the step raised before the assignment
Assigned(old, ex) == IF ex.call = "none" \/ ex.result.raised THEN old ELSE ex.result.value

\* X_id = autocomplete_entity(body[key], entity_type=...)
Autocomplete(key, entity_type) ==
    IF key \notin body.keys
    THEN /\ Fail(KeyError(key))
         /\ exchange' = NoExchange
         /\ UNCHANGED calls
    ELSE \E response \in AutocompleteResponses :
            LET r == autocomplete_entity(response, entity_type)
            IN  /\ calls' = Append(calls, AutocompleteCall(entity_type))
                /\ exchange' = [call |-> "autocomplete", entity_type |-> entity_type,
                                response |-> response, result |-> r]
                /\ IF r.raised
                   THEN Fail(r.exc)
                   ELSE pc' = Sequel(pc) /\ UNCHANGED http

AutocompleteMusic ==
    /\ pc = "autocomplete_music"
    /\ Autocomplete("music", artist)
    /\ music_id' = Assigned(music_id, exchange')
    /\ UNCHANGED <<body, movie_id, brand_id, music_trends, movie_trends, brand_trends,
                   qloo_suggestions, temperature, parsed>>

AutocompleteMovie ==
    /\ pc = "autocomplete_movie"
    /\ Autocomplete("movies", movie)
    /\ movie_id' = Assigned(movie_id, exchange')
    /\ UNCHANGED <<body, music_id, brand_id, music_trends, movie_trends, brand_trends,
                   qloo_suggestions, temperature, parsed>>

AutocompleteBrand ==
    /\ pc = "autocomplete_brand"
    /\ Autocomplete("brands", brand)
    /\ brand_id' = Assigned(brand_id, exchange')
    /\ UNCHANGED <<body, music_id, movie_id, music_trends, movie_trends, brand_trends,
                   qloo_suggestions, temperature, parsed>>

\* X_trends = get_qloo_trending(X_id, entity_type=...)
Trending(entity_id, entity_type) ==
    IF SkipsTrending(entity_id)
    THEN /\ exchange' = [call |-> "skipped", entity_type |-> entity_type,
                         response |-> NoResponse, result |-> Returned(<<>>)]
         /\ pc' = Sequel(pc)
         /\ UNCHANGED <<calls, http>>
    ELSE \E response \in TrendingResponses :
            LET r == get_qloo_trending(response)
            IN  /\ calls' = Append(calls, TrendingCall(entity_type))
                /\ exchange' = [call |-> "trending", entity_type |-> entity_type,
                                response |-> response, result |-> r]
                /\ IF r.raised
                   THEN Fail(r.exc)
                   ELSE pc' = Sequel(pc) /\ UNCHANGED http

TrendingMusic ==
    /\ pc = "trending_music"
    /\ Trending(music_id, artist)
    /\ music_trends' = Assigned(music_trends, exchange')
    /\ UNCHANGED <<body, music_id, movie_id, brand_id, movie_trends, brand_trends,
                   qloo_suggestions, temperature, parsed>>

TrendingMovie ==
    /\ pc = "trending_movie"
    /\ Trending(movie_id, movie)
    /\ movie_trends' = Assigned(movie_trends, exchange')
    /\ UNCHANGED <<body, music_id, movie_id, brand_id, music_trends, brand_trends,
                   qloo_suggestions, temperature, parsed>>

TrendingBrand ==
    /\ pc = "trending_brand"
    /\ Trending(brand_id, brand)
    /\ brand_trends' = Assigned(brand_trends, exchange')
    /\ UNCHANGED <<body, music_id, movie_id, brand_id, music_trends, movie_trends,
                   qloo_suggestions, temperature, parsed>>

\* qloo_suggestions = ...; ai_result = generate_persona_from_taste(...);
\* parsed = json.loads(ai_result)
Persona ==
    /\ pc = "persona"
    /\ qloo_suggestions' = Concat3(music_trends, movie_trends, brand_trends)
    /\ LET k == FirstMissing(body, <<"movies", "music", "brands", "gender">>)
       IN  IF k # None
           THEN /\ Fail(KeyError(k))
                /\ exchange' = NoExchange
                /\ UNCHANGED <<temperature, calls>>
           ELSE \E completion \in PersonaCompletions :
                   LET ai_result == generate_persona_from_taste(completion)
                       r == IF ai_result.raised THEN ai_result
                            ELSE json_loads_persona(ai_result.value)
                   IN  /\ temperature' = <<capped_temperature(body_get_variation(body))>>
                       /\ calls' = Append(calls, "persona")
                       /\ exchange' = [call |-> "persona", entity_type |-> <<>>,
                                       response |-> completion, result |-> r]
                       /\ IF r.raised
                          THEN Fail(r.exc)
                          ELSE pc' = Sequel(pc) /\ UNCHANGED http
    /\ parsed' = Assigned(parsed, exchange')
    /\ UNCHANGED <<body, music_id, movie_id, brand_id, music_trends, movie_trends,
                   brand_trends>>

\* country_insights = generate_cultural_map_insights(...); return {...}
\* parsed.get exists on a dict only
CountryInsights ==
    /\ pc = "country"
    /\ \E completion \in CountryCompletions :
          LET r == generate_cultural_map_insights(completion)
          IN  /\ calls' = Append(calls, "country")
              /\ exchange' = [call |-> "country", entity_type |-> <<>>,
                              response |-> completion, result |-> r]
              /\ IF r.raised
                 THEN Fail(r.exc)
                 ELSE IF parsed.kind # "object"
                      THEN Fail(<<"AttributeError: object has no attribute 'get'">>)
                      ELSE pc' = Sequel(pc) /\ http' = OkResponse(parsed, r.value)
    /\ UNCHANGED <<body, music_id, movie_id, brand_id, music_trends, movie_trends,
                   brand_trends, qloo_suggestions, temperature, parsed>>

Next ==
    \/ AutocompleteMusic
    \/ AutocompleteMovie
    \/ AutocompleteBrand
    \/ TrendingMusic
    \/ TrendingMovie
    \/ TrendingBrand
    \/ Persona
    \/ CountryInsights

Spec == Init /\ [][Next]_vars

-----------------------------------------------------------------------------
(* autocomplete_entity on its own: one call, any category, any answer *)

InitResolve ==
    /\ Init
    /\ pc = "autocomplete_music"
    /\ body = [keys |-> AllKeys, variation |-> 0]

Resolve ==
    /\ pc = "autocomplete_music"
    /\ \E entity_type \in {artist, movie, brand}, response \in ResolveResponses :
          /\ calls' = Append(calls, AutocompleteCall(entity_type))
          /\ exchange' = [call |-> "autocomplete", entity_type |-> entity_type,
                          response |-> response,
                          result |-> autocomplete_entity(response, entity_type)]
    /\ pc' = "done"
    /\ UNCHANGED <<body, music_id, movie_id, brand_id, music_trends, movie_trends,
                   brand_trends, qloo_suggestions, temperature, parsed, http>>

SpecResolve == InitResolve /\ [][Resolve]_vars

-----------------------------------------------------------------------------
(* Properties *)

Occurs(x, seq) == \E i \in 1..Len(seq) : seq[i] = x

\* the positions of call c in the log
Positions(c) == {i \in 1..Len(calls) : calls[i] = c}

AutocompleteCalls == {"autocomplete:artist", "autocomplete:movie", "autocomplete:brand"}
TrendingCalls == {"trending:artist", "trending:movie", "trending:brand"}

\* C1: whenever the persona completion returns empty content (absent, or
\* the empty string), the request ends in a 500 response whose detail
\* carries "GPT returned empty response", and no 200 payload is returned.
C1_EmptyPersonaIs500 ==
    (/\ exchange.call = "persona"
     /\ ~exchange.response.raises
     /\ (~exchange.response.content.present \/ exchange.response.content.text = <<>>))
    => /\ pc = "done"
       /\ http.status = 500
       /\ ~http.has_payload
       /\ Occurs("GPT returned empty response", http.detail)

C1_Witness ==
    /\ exchange.call = "persona"
    /\ ~exchange.response.raises
    /\ exchange.response.content.present
    /\ exchange.response.content.text = <<>>
    /\ http.status = 500
    /\ http.detail = <<"Analysis failed: ", "500", ": ", "GPT returned empty response">>

\* C2 (as stated in the specification): once the persona output was non-empty and parsed, a
\* country-insight completion that returns empty content, or content that
\* is no JSON list of objects, still ends the request in a 200 response
\* whose countryInsights is {}.
C2_CountryFailureStill200 ==
    (/\ exchange.call = "country"
     /\ ~exchange.response.raises
     /\ parsed # NotParsed
     /\ LET c == exchange.response.content
            js == json_loads_country(c.text)
        IN  \/ ~c.present
            \/ c.text = <<>>
            \/ js.raised
            \/ js.value.kind # "array"
            \/ \E i \in 1..Len(js.value.elements) : js.value.elements[i].kind # "object")
    => /\ http.status = 200
       /\ http.has_payload
       /\ http.countryInsights = {}

\* C3 (as stated in the specification): a persona output that is valid JSON without a
\* culturalTwin field (whatever its shape) ends the request in a 200
\* response with culturalTwin "Unknown", never in an error; when the field
\* is there, the response carries it.
C3_UnrecognizedShapeIsUnknown ==
    (/\ pc = "done"
     /\ parsed # NotParsed
     /\ exchange.call = "country"
     /\ ~exchange.response.raises)
    => /\ http.status = 200
       /\ ~parsed.has_twin => http.culturalTwin = "Unknown"
       /\ parsed.has_twin => http.culturalTwin = parsed.culturalTwin

\* C4 (as stated in the specification): a body lacking a required field ends in a 500 response
\* whose detail is "Analysis failed: " followed by a message naming a
\* missing key, with no 200 payload, whatever the providers do.
C4_MissingFieldNamed ==
    (pc = "done" /\ Required \ body.keys # {})
    => /\ http.status = 500
       /\ ~http.has_payload
       /\ http.detail # <<>>
       /\ http.detail[1] = "Analysis failed: "
       /\ \E k \in Required \ body.keys : Occurs(k, http.detail)

\* C5 (as stated in the specification): a taste-graph call that fails, the provider being
\* unreachable or answering a non-200 status, is not surfaced: the lookup
\* gives no match / an empty trend list and the request is not ended by it.
C5_TasteGraphFailureDegrades ==
    (/\ exchange.call \in {"autocomplete", "trending"}
     /\ Required \subseteq body.keys
     /\ (exchange.response.raises \/ exchange.response.status_code # 200))
    => /\ ~exchange.result.raised
       /\ exchange.call = "autocomplete" => exchange.result.value = None
       /\ exchange.call = "trending" => exchange.result.value = <<>>
       /\ http.status # 500

\* C6: for each category, when entity resolution gave no identifier the
\* trend list of the category is empty and no trending call for it was
\* issued.
C6_NoIdNoTrendingCall ==
    /\ ~Truthy(music_id) => (music_trends = <<>> /\ Positions("trending:artist") = {})
    /\ ~Truthy(movie_id) => (movie_trends = <<>> /\ Positions("trending:movie") = {})
    /\ ~Truthy(brand_id) => (brand_trends = <<>> /\ Positions("trending:brand") = {})

C6_Witness ==
    /\ pc = "done"
    /\ http.status = 200
    /\ music_id = "e1"
    /\ movie_id = None
    /\ brand_id = ""
    /\ calls = <<"autocomplete:artist", "autocomplete:movie", "autocomplete:brand",
                 "trending:artist", "persona", "country">>

\* the names of the items that have one, in the order of the list
InProviderOrder(names, items) ==
    LET named == {i \in 1..Len(items) : items[i].has_name}
    IN  /\ Len(names) = Cardinality(named)
        /\ \A i \in named : names[Cardinality({j \in named : j <= i})] = items[i].name

\* C7: the suggestion list handed to the persona call is the music trend
\* list, then the movie trend list, then the brand trend list, and a trend
\* list fetched from the provider is the names of the answer's named items
\* in the answer's order.
C7_SuggestionOrder ==
    /\ Occurs("persona", calls) =>
          /\ Len(qloo_suggestions) = Len(music_trends) + Len(movie_trends) + Len(brand_trends)
          /\ \A i \in 1..Len(music_trends) : qloo_suggestions[i] = music_trends[i]
          /\ \A i \in 1..Len(movie_trends) :
                qloo_suggestions[Len(music_trends) + i] = movie_trends[i]
          /\ \A i \in 1..Len(brand_trends) :
                qloo_suggestions[Len(music_trends) + Len(movie_trends) + i] = brand_trends[i]
    /\ (/\ exchange.call = "trending"
        /\ ~exchange.response.raises
        /\ exchange.response.status_code = 200
        /\ exchange.response.valid) =>
          LET bound == CASE exchange.entity_type = artist -> music_trends
                         [] exchange.entity_type = movie -> movie_trends
                         [] exchange.entity_type = brand -> brand_trends
          IN  InProviderOrder(bound, exchange.response.results)

C7_Witness ==
    /\ Occurs("persona", calls)
    /\ music_trends = <<"a", "b">>
    /\ movie_trends = <<>>
    /\ brand_trends = <<"b">>
    /\ qloo_suggestions = <<"a", "b", "b">>

\* C8 (as stated in the specification): the temperature handed to the persona call is
\* min(80 + 5v, 200) hundredths for the variation seed v, and lies in the
\* range the provider accepts, 0 to 200 hundredths, for every v.
C8_TemperatureInRange ==
    temperature # <<>> =>
        LET v == body_get_variation(body)
        IN  /\ temperature[1] = (IF 80 + 5 * v <= 200 THEN 80 + 5 * v ELSE 200)
            /\ temperature[1] >= 0
            /\ temperature[1] <= 200

\* the place of each outbound call in the order of the try block
Rank(c) ==
    CASE c = "autocomplete:artist" -> 1
      [] c = "autocomplete:movie" -> 2
      [] c = "autocomplete:brand" -> 3
      [] c = "trending:artist" -> 4
      [] c = "trending:movie" -> 5
      [] c = "trending:brand" -> 6
      [] c = "persona" -> 7
      [] c = "country" -> 8

\* C9: the outbound calls of a request follow the fixed order and no call
\* is repeated; every trending lookup comes after the three autocomplete
\* lookups and the persona call after every taste-graph call; the
\* country-insight call is issued only after the persona call returned
\* content that parsed as JSON; the stage that raised made the last call,
\* and once the response exists nothing further happens.
C9_CallOrder ==
    /\ \A i, j \in 1..Len(calls) : i < j => Rank(calls[i]) < Rank(calls[j])
    /\ \A j \in 1..Len(calls) :
          calls[j] \in TrendingCalls \cup {"persona"} =>
              \A a \in AutocompleteCalls : \E i \in 1..(j - 1) : calls[i] = a
    /\ \A j \in Positions("country") :
          /\ parsed # NotParsed
          /\ \E i \in 1..(j - 1) : calls[i] = "persona"
    /\ (http.status = 500 /\ exchange.call \in {"autocomplete", "trending", "persona", "country"}) =>
          Rank(calls[Len(calls)]) =
              (CASE exchange.call = "autocomplete" -> Rank(AutocompleteCall(exchange.entity_type))
                 [] exchange.call = "trending" -> Rank(TrendingCall(exchange.entity_type))
                 [] exchange.call = "persona" -> 7
                 [] exchange.call = "country" -> 8)
    /\ http.status # 0 => (pc = "done" /\ ~ENABLED Next)
    /\ http.status = 0 => pc # "done"

C9_Witness ==
    /\ pc = "done"
    /\ http.status = 500
    /\ exchange.call = "persona"
    /\ exchange.result.raised
    /\ calls = <<"autocomplete:artist", "autocomplete:movie", "autocomplete:brand",
                 "trending:artist", "trending:movie", "trending:brand", "persona">>

\* C10: on a 200 answer with a candidate list, autocomplete_entity gives the
\* id of the first candidate, in list order, whose type contains the
\* category whatever the case of its letters, and None when no candidate
\* does; on a non-200 answer it gives None, having asked the provider once.
C10_FirstMatchingCandidate ==
    (exchange.call = "autocomplete" /\ ~exchange.response.raises) =>
        LET rs == exchange.response.results
            wanted == str_lower(exchange.entity_type)
            matching == {i \in 1..Len(rs) : str_in(wanted, str_lower(rs[i].type))}
        IN  /\ (exchange.response.status_code = 200 /\ exchange.response.valid) =>
                  /\ ~exchange.result.raised
                  /\ matching = {} => exchange.result.value = None
                  /\ matching # {} =>
                        \E i \in matching :
                            /\ \A j \in matching : i <= j
                            /\ exchange.result.value = rs[i].id
            /\ exchange.response.status_code # 200 =>
                  /\ ~exchange.result.raised
                  /\ exchange.result.value = None
                  /\ Len(calls) = 1

C10_Witness ==
    /\ exchange.call = "autocomplete"
    /\ exchange.entity_type = movie
    /\ exchange.response.status_code = 200
    /\ exchange.response.valid
    /\ Len(exchange.response.results) = 2
    /\ exchange.response.results[1].type # <<>>
    /\ ~str_in(movie, str_lower(exchange.response.results[1].type))
    /\ exchange.response.results[1].id = "e1"
    /\ str_in(movie, str_lower(exchange.response.results[2].type))
    /\ exchange.response.results[2].id = "e2"
    /\ exchange.result.value = "e2"

====
